---- MODULE Spec2Model ----
(***************************************************************************)
(* A model of the Fx base class of MooTools (src/Effects/Fx.js): the       *)
(* start / stop / set / step state machine of one Fx instance, the         *)
(* periodical timer that drives step, the Events and Chain mix-ins it      *)
(* calls, and the user code (event listeners, the increase hook, chain     *)
(* actions) that those run synchronously and that may call back into the   *)
(* instance.                                                               *)
(*                                                                         *)
(* JavaScript is single threaded: a handler runs to its end before the     *)
(* event loop runs the next timer.  The variable stack holds the handlers  *)
(* that are suspended in a callback; timers fire and the clock moves only  *)
(* when it is empty.                                                       *)
(*                                                                         *)
(* Numbers are fixed point with unit 1/SCALE, so 1.0 is SCALE.             *)
(***************************************************************************)
EXTENDS Integers, Sequences, FiniteSets, TLC

VARIABLES
    options,   \* this.options: [wait, duration, fps], fixed at construction
    this,      \* the instance fields: from, to, change, time, delta, now, timer
    live,      \* the handles of the periodical timers that have not been cleared
    due,       \* due[h]: the earliest time at which timer h fires next
    chain,     \* the Chain queue: ids of the queued actions, oldest first
    pending,   \* delayed onComplete deliveries: their due times, oldest first
    clock,     \* $time(), in ms
    stack,     \* suspended handlers and running callbacks, innermost last
    nested,    \* how many calls callbacks have made back into the instance
    ended,     \* the timers still in use whose run has fired onCancel or onComplete
    phase,     \* how this.timer was last changed: "new", "running", "stopped", "completed"
    ticks,     \* how often step has been called since line 174 last created a timer
    out        \* the step just taken: its name, the events it fired, the hook, the result

vars ==
    <<options, this, live, due, chain, pending, clock, stack, nested, ended, phase, ticks,
      out>>

-----------------------------------------------------------------------------
(* Bounds of the model *)

MaxClock == 20
MaxHandles == 2
MaxNested == 1
MaxChain == 2

(* Representation *)

SCALE == 1000
Null == 0
Undef == -1

(* Program constants *)

CompleteDelay == 10
DefaultDuration == 500
DefaultFps == 50

SetValues == {SCALE \div 4}
StartArgs == {<<0, SCALE>>, <<SCALE, 0>>}
Durations == {0, 20}
FpsChoices == {100}
TickFps == {DefaultFps, 60}
Handles == 1..MaxHandles
ChainIds == 1..MaxChain

-----------------------------------------------------------------------------
(* Pure helpers of Fx *)

\* Math.round(1000 / this.options.fps), for fps > 0
Interval == (2 * 1000 + options.fps) \div (2 * options.fps)

\* -(Math.cos(Math.PI * p) - 1) / 2 at p = elapsed / duration, to three decimals,
\* p taken to the twelfth below
CosEase(k) ==
    CASE k <= 0 -> 0
      [] k = 1 -> 17
      [] k = 2 -> 67
      [] k = 3 -> 146
      [] k = 4 -> 250
      [] k = 5 -> 371
      [] k = 6 -> 500
      [] k = 7 -> 629
      [] k = 8 -> 750
      [] k = 9 -> 854
      [] k = 10 -> 933
      [] k = 11 -> 983
      [] OTHER -> 1000

transition(elapsed, duration) == CosEase((12 * elapsed) \div duration)

compute_noFrom(from, to, delta) == ((to - from) * delta) \div SCALE

compute(from, to, delta) == ((to - from) * delta) \div SCALE + from

setNow(f) == [f EXCEPT !.now = compute(f.from, f.to, f.delta)]

-----------------------------------------------------------------------------
(* Collaborators: timer primitive, Events, Chain *)

\* $clear(timer): the timer is cancelled; the result, null, is stored in this.timer
Clear(lv, h) == lv \ {h}

Forget(du, lv) == [h \in Handles |-> IF h \in lv THEN du[h] ELSE 0]

\* the timers in use with stk on the stack: live, or held by a suspended call
Kept(lv, stk) == lv \cup {stk[i].h : i \in 1..Len(stk)}

\* fn.periodical(interval, this): a fresh handle, the first call one interval from now
FreeHandle(used) == CHOOSE h \in Handles \ used : \A g \in Handles \ used : h <= g

Periodical(du, h) == [du EXCEPT ![h] = clock + Interval]

Frame(k, a, b, h) == [k |-> k, who |-> "", a |-> a, b |-> b, h |-> h]

\* the instance invokes a callback (listener, hook or chain action) on top of stk;
\* a callback that can still call back into the instance stays on the stack until
\* it returns, any other has returned by the end of the step. n: the calls made so far
Invoke(who, stk, n) ==
    IF n < MaxNested THEN stk \o <<[Frame("cb", 0, 0, 0) EXCEPT !.who = who]>> ELSE stk

Top == stack[Len(stack)]

Pop == SubSeq(stack, 1, Len(stack) - 1)

\* code of the instance is entered from the event loop or from a running callback
CanCall == IF stack = <<>> THEN TRUE ELSE Top.k = "cb" /\ nested < MaxNested

\* the calls made back into the instance, this call included
Calls == IF stack = <<>> THEN nested ELSE nested + 1

\* op: the step; fired: the events it fired, in order; hook: increase was called;
\* ran: the chain action invoked (0: none); ret: "this" when the method returned at once
Did(op, fired, hook, ran, ret) ==
    [op |-> op, fired |-> fired, hook |-> hook, ran |-> ran, ret |-> ret]

-----------------------------------------------------------------------------
(* Fx.stop *)

stop_alwaysFires(f, lv, ignore) ==
    [this |-> [f EXCEPT !.timer = Null],
     live |-> Clear(lv, f.timer),
     fired |-> IF ignore THEN <<>> ELSE <<"cancel">>]

stop_keepsHandle(f, lv, ignore) ==
    IF f.timer = Null
    THEN [this |-> f, live |-> lv, fired |-> <<>>]
    ELSE [this |-> f,
          live |-> Clear(lv, f.timer),
          fired |-> IF ignore THEN <<>> ELSE <<"cancel">>]

stop(f, lv, ignore) ==
    IF f.timer = Null
    THEN [this |-> f, live |-> lv, fired |-> <<>>]
    ELSE [this |-> [f EXCEPT !.timer = Null],
          live |-> Clear(lv, f.timer),
          fired |-> IF ignore THEN <<>> ELSE <<"cancel">>]

Cancelled(f, s) == IF s.fired = <<>> THEN ended ELSE ended \cup {f.timer}

Stopped(f, s, how) == IF s.this.timer = f.timer THEN phase ELSE how

CallStop(ignore) ==
    /\ CanCall
    /\ IF stack = <<>> THEN TRUE ELSE ~ignore
    /\ LET s == stop(this, live, ignore) IN
       /\ this' = s.this
       /\ live' = s.live
       /\ due' = Forget(due, s.live)
       /\ ended' = Cancelled(this, s) \cap Kept(s.live, stack)
       /\ phase' = Stopped(this, s, "stopped")
       /\ stack' = IF s.fired = <<>> THEN stack ELSE Invoke("onCancel", stack, Calls)
       /\ out' = Did(IF this.timer = Null THEN "stop.idle" ELSE "stop.busy",
                     s.fired, FALSE, 0, IF s.fired = <<>> THEN "this" ELSE "")
    /\ nested' = Calls
    /\ UNCHANGED <<options, chain, pending, clock, ticks>>

-----------------------------------------------------------------------------
(* Fx.start *)

rejects_never(f) == FALSE

\* lines 168-169: the call returns at line 169
rejects(f) == options.wait /\ f.timer # Null

begin_keepsTime(f, a, b, h) ==
    [f EXCEPT !.from = a, !.to = b, !.change = b - a, !.timer = h]

begin_swapped(f, a, b, h) ==
    [f EXCEPT !.from = b, !.to = a, !.change = b - a, !.time = clock, !.timer = h]

\* lines 170-174
begin(f, a, b, h) ==
    [f EXCEPT !.from = a, !.to = b, !.change = b - a, !.time = clock, !.timer = h]

\* lines 170-176, with the listeners of onStart invoked last
Begin(a, b, stk, n) ==
    /\ Handles \ Kept(live, stk) # {}
    /\ LET h == FreeHandle(Kept(live, stk)) IN
       /\ this' = begin(this, a, b, h)
       /\ live' = live \cup {h}
       /\ due' = Periodical(due, h)
       /\ ended' = (ended \ {h}) \cap Kept(live, stk)
    /\ stack' = Invoke("onStart", stk, n)
    /\ phase' = "running"
    /\ ticks' = 0

CallStart(a, b) ==
    /\ CanCall
    /\ nested' = Calls
    /\ LET op == IF this.timer = Null THEN "start.idle" ELSE "start.busy" IN
       IF rejects(this)
       THEN /\ out' = Did(op, <<>>, FALSE, 0, "this")
            /\ UNCHANGED <<this, live, due, stack, ended, phase, ticks>>
       ELSE IF ~options.wait /\ this.timer # Null
       THEN \* this.stop() fires onCancel; line 170 follows when its listeners are done
            LET s == stop(this, live, FALSE) IN
            /\ this' = s.this
            /\ live' = s.live
            /\ due' = Forget(due, s.live)
            /\ phase' = Stopped(this, s, "stopped")
            /\ stack' = Invoke("onCancel",
                               stack \o <<Frame("start", a, b, this.timer)>>, Calls)
            /\ ended' = Cancelled(this, s) \cap Kept(s.live, stack')
            /\ out' = Did(op, s.fired, FALSE, 0, "")
            /\ UNCHANGED ticks
       ELSE /\ Begin(a, b, stack, Calls)
            /\ out' = Did(op, <<"start">>, FALSE, 0, "")
    /\ UNCHANGED <<options, chain, pending, clock>>

StartResume ==
    /\ stack # <<>>
    /\ Top.k = "start"
    /\ Begin(Top.a, Top.b, Pop, nested)
    /\ out' = Did("start.resume", <<"start">>, FALSE, 0, "")
    /\ UNCHANGED <<options, chain, pending, clock, nested>>

-----------------------------------------------------------------------------
(* Fx.set *)

setValue_stops(f, v) == [f EXCEPT !.now = v, !.timer = Null]

\* line 130
setValue(f, v) == [f EXCEPT !.now = v]

CallSet(v) ==
    /\ stack = <<>>
    /\ this' = setValue(this, v)
    /\ stack' = Invoke("increase", <<Frame("set", v, 0, 0)>>, nested)
    /\ out' = Did("set", <<>>, TRUE, 0, "")
    /\ UNCHANGED <<options, live, due, chain, pending, clock, nested, ended, phase, ticks>>

SetResume ==
    /\ stack # <<>>
    /\ Top.k = "set"
    /\ stack' = Invoke("onSet", Pop, nested)
    /\ out' = Did("set.event", <<"set">>, FALSE, 0, "")
    /\ UNCHANGED <<options, this, live, due, chain, pending, clock, nested, ended, phase, ticks>>

-----------------------------------------------------------------------------
(* Fx.step, called by timer h *)

completes_after(f) == f.time + options.duration < clock

completes_late(f) ==
    IF options.duration = 0 THEN TRUE ELSE clock > f.time + options.duration

completes_never(f) == options.duration = 0

\* line 86: the else branch is taken
completes(f) == ~(clock < f.time + options.duration)

eased_lazy(f) ==
    IF f.now \in SetValues
    THEN [f EXCEPT !.delta = transition(clock - f.time, options.duration)]
    ELSE setNow([f EXCEPT !.delta = transition(clock - f.time, options.duration)])

\* lines 87-88
eased(f) == setNow([f EXCEPT !.delta = transition(clock - f.time, options.duration)])

finalNow_rebased(f) == [f EXCEPT !.now = f.to, !.from = f.to, !.change = 0]

finalNow_eased(f) == setNow(f)

\* line 92
finalNow(f) == [f EXCEPT !.now = f.to]

Tick_hookFirst(h) ==
    /\ stack = <<>>
    /\ h \in live
    /\ clock >= due[h]
    /\ IF ~completes(this)
       THEN /\ this' = eased(this)
            /\ stack' = Invoke("increase", <<>>, nested)
            /\ out' = Did("tick", <<>>, TRUE, 0, "")
       ELSE /\ this' = finalNow(this)
            /\ stack' = Invoke("increase", <<Frame("step", 0, 0, h)>>, nested)
            /\ out' = Did("tick.complete", <<>>, TRUE, 0, "")
    /\ due' = [due EXCEPT ![h] = clock + Interval]
    /\ UNCHANGED <<options, live, chain, pending, clock, nested, ended, phase>>
    /\ ticks' = ticks + 1

Tick(h) ==
    /\ stack = <<>>
    /\ h \in live
    /\ clock >= due[h]
    /\ IF ~completes(this)
       THEN /\ this' = eased(this)
            /\ due' = [due EXCEPT ![h] = clock + Interval]
            /\ stack' = Invoke("increase", <<>>, nested)
            /\ out' = Did("tick", <<>>, TRUE, 0, "")
            /\ UNCHANGED <<live, phase>>
       ELSE LET s == stop(this, live, TRUE) IN
            /\ this' = finalNow(s.this)
            /\ live' = s.live
            /\ due' = Forget([due EXCEPT ![h] = clock + Interval], s.live)
            /\ phase' = Stopped(this, s, "completed")
            /\ stack' = Invoke("increase", <<Frame("step", 0, 0, h)>>, nested)
            /\ out' = Did("tick.complete", <<>>, TRUE, 0, "")
    /\ UNCHANGED <<options, chain, pending, clock, nested, ended>>
    /\ ticks' = ticks + 1

finish_noEvent(q) ==
    [fired |-> <<>>,
     ran |-> IF q = <<>> THEN 0 ELSE Head(q),
     rest |-> IF q = <<>> THEN q ELSE Tail(q)]

\* lines 94-95: fireEvent('onComplete', element, 10), then callChain() on queue q
finish(q) ==
    [fired |-> <<"complete">>,
     ran |-> IF q = <<>> THEN 0 ELSE Head(q),
     rest |-> IF q = <<>> THEN q ELSE Tail(q)]

StepResume ==
    /\ stack # <<>>
    /\ Top.k = "step"
    /\ LET r == finish(chain) IN
       /\ pending' = IF r.fired = <<>> THEN pending
                     ELSE Append(pending, clock + CompleteDelay)
       /\ ended' = (IF r.fired = <<>> THEN ended ELSE ended \cup {Top.h})
                   \cap Kept(live, Pop)
       /\ chain' = r.rest
       /\ stack' = IF r.ran = 0 THEN Pop ELSE Invoke("chain", Pop, nested)
       /\ out' = Did("step.complete", r.fired, FALSE, r.ran, "")
    /\ UNCHANGED <<options, this, live, due, clock, nested, phase, ticks>>

-----------------------------------------------------------------------------
(* The environment: user code, the event loop, the clock *)

Throw_swallowed ==
    /\ stack # <<>>
    /\ Top.k = "cb"
    /\ Top.who = "increase"
    /\ stack' = Pop
    /\ ended' = ended
    /\ out' = Did("throw", <<>>, FALSE, 0, "")
    /\ UNCHANGED <<options, this, live, due, chain, pending, clock, nested, phase, ticks>>

\* lines 89, 93, 131: this.increase is missing or raises; neither step nor set
\* catches, so the exception ends the handler at that line
Throw ==
    /\ stack # <<>>
    /\ Top.k = "cb"
    /\ Top.who = "increase"
    /\ stack' = <<>>
    /\ ended' = ended \cap Kept(live, <<>>)
    /\ out' = Did("throw", <<>>, FALSE, 0, "")
    /\ UNCHANGED <<options, this, live, due, chain, pending, clock, nested, phase, ticks>>

\* chain(fn): fn joins the queue
CallChain ==
    /\ stack = <<>>
    /\ Len(chain) < MaxChain
    /\ LET used == {chain[i] : i \in 1..Len(chain)}
           id == CHOOSE i \in ChainIds \ used : \A j \in ChainIds \ used : i <= j
       IN chain' = Append(chain, id)
    /\ out' = Did("chain", <<>>, FALSE, 0, "this")
    /\ UNCHANGED <<options, this, live, due, pending, clock, stack, nested, ended, phase, ticks>>

\* the delayed onComplete reaches its listeners
DeliverComplete ==
    /\ stack = <<>>
    /\ pending # <<>>
    /\ Head(pending) <= clock
    /\ pending' = Tail(pending)
    /\ stack' = Invoke("onComplete", <<>>, nested)
    /\ out' = Did("deliver", <<>>, FALSE, 0, "")
    /\ UNCHANGED <<options, this, live, due, chain, clock, nested, ended, phase, ticks>>

\* a callback returns to the code that invoked it
Return ==
    /\ stack # <<>>
    /\ Top.k = "cb"
    /\ stack' = Pop
    /\ out' = Did("return", <<>>, FALSE, 0, "")
    /\ UNCHANGED <<options, this, live, due, chain, pending, clock, nested, ended, phase, ticks>>

\* the event loop is idle until a timer period has passed
AdvanceClock(d) ==
    /\ stack = <<>>
    /\ clock + d <= MaxClock
    /\ clock' = clock + d
    /\ out' = Did("advance", <<>>, FALSE, 0, "")
    /\ UNCHANGED <<options, this, live, due, chain, pending, stack, nested, ended, phase, ticks>>

-----------------------------------------------------------------------------

\* the instance after construction, whatever its options
Constructed ==
    /\ this = [from |-> Undef, to |-> Undef, change |-> Undef, time |-> Undef,
               delta |-> Undef, now |-> Undef, timer |-> Null]
    /\ live = {}
    /\ due = [h \in Handles |-> 0]
    /\ chain = <<>>
    /\ pending = <<>>
    /\ clock = 0
    /\ stack = <<>>
    /\ nested = 0
    /\ ended = {}
    /\ phase = "new"
    /\ ticks = 0
    /\ out = Did("new", <<>>, FALSE, 0, "")

Init ==
    /\ options \in [wait : BOOLEAN, duration : Durations, fps : FpsChoices]
    /\ Constructed

Next ==
    \/ \E ab \in StartArgs : CallStart(ab[1], ab[2])
    \/ StartResume
    \/ \E ignore \in BOOLEAN : CallStop(ignore)
    \/ \E v \in SetValues : CallSet(v)
    \/ SetResume
    \/ \E h \in Handles : Tick(h)
    \/ StepResume
    \/ Throw
    \/ CallChain
    \/ DeliverComplete
    \/ Return
    \/ \E d \in {Interval, CompleteDelay} : AdvanceClock(d)

Spec == Init /\ [][Next]_vars

\* A run that is left alone: user code calls neither stop nor a start that would
\* preempt the run in progress (a start with options.wait unset and the timer set)
StartUndisturbed(a, b) ==
    /\ IF this.timer = Null THEN TRUE ELSE options.wait
    /\ CallStart(a, b)

Undisturbed ==
    \/ \E ab \in StartArgs : StartUndisturbed(ab[1], ab[2])
    \/ \E v \in SetValues : CallSet(v)
    \/ SetResume
    \/ \E h \in Handles : Tick(h)
    \/ StepResume
    \/ CallChain
    \/ DeliverComplete
    \/ Return
    \/ \E d \in {Interval, CompleteDelay} : AdvanceClock(d)

\* The scheduling of a browser: a handler that was entered runs to its end, its
\* callbacks return, a periodical timer that is due again and again is run, and
\* time passes whenever the event loop is idle.
Scheduling ==
    /\ WF_vars(Return)
    /\ WF_vars(SetResume)
    /\ WF_vars(StepResume)
    /\ \A h \in Handles : SF_vars(Tick(h))
    /\ SF_vars(\E d \in {Interval, CompleteDelay} : AdvanceClock(d))

FairSpec == Init /\ [][Undisturbed]_vars /\ Scheduling

\* One run with the default duration, driven by a timer that fires exactly when it
\* is due: user code starts the new instance, and may call start again during the
\* run where that is rejected.
TickInit ==
    /\ options \in [wait : BOOLEAN, duration : {DefaultDuration}, fps : TickFps]
    /\ Constructed

SingleStart(a, b) ==
    /\ IF this.timer = Null THEN phase = "new" ELSE options.wait
    /\ CallStart(a, b)

\* the event loop is idle until the next timer is due
TimerPeriod ==
    /\ stack = <<>>
    /\ live # {}
    /\ \A h \in live : clock < due[h]
    /\ clock' = (CHOOSE t \in {due[h] : h \in live} : \A g \in live : t <= due[g])
    /\ out' = Did("advance", <<>>, FALSE, 0, "")
    /\ UNCHANGED <<options, this, live, due, chain, pending, stack, nested, ended, phase,
                   ticks>>

TickNext ==
    \/ \E ab \in StartArgs : SingleStart(ab[1], ab[2])
    \/ \E h \in Handles : Tick(h)
    \/ StepResume
    \/ Return
    \/ TimerPeriod

TickSpec == TickInit /\ [][TickNext]_vars

-----------------------------------------------------------------------------
(* Properties *)

StartCalls == {"start.idle", "start.busy"}
StopCalls == {"stop.idle", "stop.busy"}
Ticks == {"tick", "tick.complete"}

\* C1 (wait policy): with options.wait set, a start call made while the timer is
\* set changes nothing: from, to, change, time and timer keep their values, no
\* timer is created, no event is fired, no callback runs, and this is returned.
C1_WaitRejects ==
    [][(out'.op \in StartCalls /\ options.wait /\ this.timer # Null)
       => /\ UNCHANGED <<this, live, due, chain, pending, stack, ended, phase>>
          /\ out' = Did("start.busy", <<>>, FALSE, 0, "this")]_vars

C1_Witness ==
    /\ out = Did("start.busy", <<>>, FALSE, 0, "this")
    /\ options.wait
    /\ this.timer # Null
    /\ this.from = 0
    /\ this.to = SCALE

\* C2 (preempt policy): with options.wait unset, a start(a, b) made while the timer
\* is set first clears the old timer and fires cancel, once, and only then, when
\* the cancel listeners are done, sets from = a, to = b, change = b - a, time = now
\* and a live timer and fires start, once.
C2_PreemptOrder ==
    [][/\ (out'.op = "start.busy" /\ ~options.wait)
          => /\ out'.fired = <<"cancel">>
             /\ this' = [this EXCEPT !.timer = Null]
             /\ live' = live \ {this.timer}
             /\ \E i \in 1..Len(stack') :
                  /\ stack'[i].k = "start"
                  /\ stack'[i].h = this.timer
                  /\ i > Len(stack)
       /\ (out'.op = "start.resume")
          => /\ Top.k = "start"
             /\ Top.h \notin live
             /\ out'.fired = <<"start">>
             /\ this'.from = Top.a
             /\ this'.to = Top.b
             /\ this'.change = Top.b - Top.a
             /\ this'.time = clock
             /\ this'.timer # Null
             /\ this'.timer \in live'
             /\ due'[this'.timer] = clock + Interval
       /\ (Len(stack') > Len(stack) /\ stack'[Len(stack) + 1].k = "start")
          => out'.op = "start.busy"]_vars

C2_Witness ==
    /\ out.op = "start.resume"
    /\ ~options.wait
    /\ this.from = SCALE
    /\ this.to = 0
    /\ this.change = -SCALE
    /\ this.time = clock
    /\ clock > 0
    /\ live = {this.timer}

\* C3 (cancel or complete, once per run): the run of a timer fires at most one of
\* cancel and complete, and at most once: a step that fires complete for the run
\* of a timer, or cancel for the run of this.timer, finds that the run has fired
\* neither before.
C3_OneEndPerRun ==
    [][/\ (out'.op = "step.complete" /\ out'.fired # <<>>) => Top.h \notin ended
       /\ (out'.fired = <<"cancel">>) => this.timer \notin ended
       /\ (out'.op = "tick.complete") => out'.fired = <<>>
       /\ (out'.op \in StopCalls \cup StartCalls \cup {"start.resume"})
          => \A i \in 1..Len(out'.fired) : out'.fired[i] # "complete"]_vars

\* C4 as stated (chain draining): a chain action is invoked only when the complete
\* event of the run has reached its listeners, once, the oldest action first.
C4_ChainAfterDelivery ==
    [][(out'.ran # 0)
       => /\ pending' = <<>>
          /\ out'.ran = Head(chain)
          /\ chain' = Tail(chain)]_vars

\* C4 as amended: a chain action is invoked only in the completing step, after
\* onComplete has been fired with its delay of 10 ms (its delivery is then still
\* pending), and it is the oldest action, which leaves the queue; nothing else
\* takes an action off the queue, and an empty queue stays empty.
C4_ChainAfterFired ==
    [][/\ (out'.ran # 0)
          => /\ out'.op = "step.complete"
             /\ out'.fired = <<"complete">>
             /\ pending' = Append(pending, clock + CompleteDelay)
             /\ chain # <<>>
             /\ out'.ran = Head(chain)
             /\ chain' = Tail(chain)
             /\ \A i \in 1..Len(chain') : chain'[i] # out'.ran
       /\ (chain' # chain /\ out'.ran = 0)
          => /\ out'.op = "chain"
             /\ Len(chain') = Len(chain) + 1
             /\ SubSeq(chain', 1, Len(chain)) = chain
       /\ (out'.op = "step.complete" /\ chain = <<>>)
          => (chain' = <<>> /\ out'.ran = 0)]_vars

C4_Witness ==
    /\ out.op = "step.complete"
    /\ out.fired = <<"complete">>
    /\ out.ran = 1
    /\ chain = <<2>>
    /\ pending # <<>>

\* C5 (completion exactness): the completing tick sets now to to itself, whatever
\* delta the last tick left, and calls the hook.
C5_ExactEnd ==
    [][(out'.op = "tick.complete")
       => /\ this'.now = this.to
          /\ this'.to = this.to
          /\ this'.delta = this.delta
          /\ out'.hook]_vars

C5_Witness ==
    /\ out.op = "tick.complete"
    /\ this.to = SCALE
    /\ this.now = SCALE
    /\ this.delta = SCALE \div 2
    /\ options.duration > 0
    /\ clock >= this.time + options.duration

\* C6 (timer and run): this.timer is set by an accepted start, unset by every stop
\* call and by the completing tick, and changed by nothing else; a set timer is a
\* live one.
C6_TimerIffRun ==
    [][/\ (out'.op = "start.resume" \/ out'.fired = <<"start">>) => this'.timer # Null
       /\ (out'.op \in StopCalls \cup {"tick.complete"}) => this'.timer = Null
       /\ (out'.op = "start.busy" /\ out'.fired # <<"start">>)
          => this'.timer = (IF options.wait THEN this.timer ELSE Null)
       /\ (out'.op \notin StartCalls \cup StopCalls \cup {"start.resume", "tick.complete"})
          => this'.timer = this.timer
       /\ this.timer # Null => this.timer \in live
       /\ this'.timer # Null => this'.timer \in live']_vars

C6_Witness ==
    /\ out.op = "stop.busy"
    /\ this.timer = Null
    /\ this.time # Undef
    /\ live = {}

\* C7 (single active run): at most one periodical timer of the instance is live.
C7_SingleSchedule == Cardinality(live) <= 1

\* C8 (idle stop): stop() and stop(true) with no timer set change nothing, fire
\* nothing, run no callback and return this.
C8_IdleStop ==
    [][(out'.op \in StopCalls /\ this.timer = Null)
       => /\ UNCHANGED <<this, live, due, chain, pending, stack, ended, phase>>
          /\ out' = Did("stop.idle", <<>>, FALSE, 0, "this")]_vars

C8_Witness ==
    /\ out = Did("stop.idle", <<>>, FALSE, 0, "this")
    /\ phase = "completed"
    /\ this.now = this.to

\* C9 (cancellation is immediate): from a stop call that found the timer set until
\* the next accepted start, the instance is idle and step is not called.
C9_NoTickAfterStop ==
    [][/\ (out'.op = "stop.busy") => (this'.timer = Null /\ phase' = "stopped")
       /\ (phase = "stopped") => (this.timer = Null /\ out'.op \notin Ticks)]_vars

\* C10 (set): set(v) stores v in now and calls the hook, then fires set, once; it
\* changes nothing else of the instance and fires no other event.
C10_Set ==
    [][/\ (out'.op = "set")
          => /\ \E v \in SetValues : this' = [this EXCEPT !.now = v]
             /\ out'.hook
             /\ out'.fired = <<>>
             /\ UNCHANGED <<live, due, chain, pending, ended, phase>>
       /\ (out'.op = "set.event")
          => /\ Top.k = "set"
             /\ out'.fired = <<"set">>
             /\ ~out'.hook
             /\ UNCHANGED <<this, live, due, chain, pending, ended, phase>>
       /\ (out'.fired # <<>> /\ out'.fired[1] = "set") => out'.op = "set.event"]_vars

C10_Witness ==
    /\ out.op = "set.event"
    /\ this.timer # Null
    /\ this.now \in SetValues
    /\ this.from = SCALE
    /\ this.to = 0

\* C11 (accepted start): a start(a, b) made while no timer is set, with either
\* value of options.wait, sets from = a, to = b, change = b - a and time to the
\* current time, creates exactly one timer, due one interval later, which becomes
\* this.timer, and fires start, once, and no cancel.
C11_IdleStart ==
    [][(out'.op = "start.idle")
       => /\ this.timer = Null
          /\ out'.fired = <<"start">>
          /\ out'.ret = ""
          /\ \E ab \in StartArgs, h \in Handles \ live :
               /\ this' = [this EXCEPT !.from = ab[1], !.to = ab[2],
                                       !.change = ab[2] - ab[1],
                                       !.time = clock, !.timer = h]
               /\ live' = live \cup {h}
               /\ due'[h] = clock + Interval
          /\ phase' = "running"
          /\ UNCHANGED <<chain, pending>>]_vars

C11_Witness ==
    /\ out.op = "start.idle"
    /\ ~options.wait
    /\ this = [from |-> 0, to |-> SCALE, change |-> SCALE, time |-> clock,
               delta |-> SCALE \div 2, now |-> SCALE \div 2, timer |-> this.timer]
    /\ live = {this.timer}
    /\ clock > 0

\* a run whose duration ends, and whose timer is due, within the time the model
\* covers
Started ==
    /\ this.timer # Null
    /\ this.time + options.duration <= MaxClock
    /\ due[this.timer] <= MaxClock

\* C12 (completion): under FairSpec, where no stop and no preempting start is
\* called, a run that has been started reaches its completing tick, which leaves
\* the timer cleared and unset and now equal to to, and the completing tick goes
\* on to fire complete and to take the oldest action, if any, off the chain;
\* starts that are rejected in between do not prevent it.
C12_Completes ==
    /\ Started ~> (out.op = "tick.complete")
    /\ [](out.op = "tick.complete"
          => this.timer = Null /\ this.now = this.to /\ phase # "running")
    /\ (out.op = "tick.complete")
          ~> (out.op = "step.complete" /\ out.fired = <<"complete">>)
    /\ [][(out'.op = "step.complete")
          => /\ out'.ran = (IF chain = <<>> THEN 0 ELSE Head(chain))
             /\ chain' = (IF chain = <<>> THEN chain ELSE Tail(chain))]_vars

C12_Witness ==
    /\ out.op = "step.complete"
    /\ out.fired = <<"complete">>
    /\ options.wait
    /\ options.duration > 0
    /\ this.timer = Null
    /\ this.now = this.to
    /\ nested > 0
    /\ live = {}

\* C13 (non-completing tick): a tick with 0 <= elapsed < duration, elapsed being
\* the time since this.time, sets delta to the easing of elapsed / duration and
\* now to from + change * delta, calls the hook, fires no event and runs no chain
\* action; the timer that ticked stays live and is due one interval later, and
\* this.timer and every other field keep their values. change = to - from holds
\* in every state after an accepted start.
C13_Tick ==
    /\ [](this.time # Undef => this.change = this.to - this.from)
    /\ [][(out'.op = "tick")
          => /\ 0 <= clock - this.time
             /\ clock - this.time < options.duration
             /\ this'.delta = transition(clock - this.time, options.duration)
             /\ this'.now = this.from + (this.change * this'.delta) \div SCALE
             /\ this' = [this EXCEPT !.delta = this'.delta, !.now = this'.now]
             /\ out'.hook
             /\ out'.fired = <<>>
             /\ out'.ran = 0
             /\ live' = live
             /\ \E h \in live :
                  /\ due[h] <= clock
                  /\ due' = [due EXCEPT ![h] = clock + Interval]
             /\ UNCHANGED <<chain, pending, ended, phase>>]_vars

C13_Witness ==
    /\ out.op = "tick"
    /\ this.from = SCALE
    /\ this.to = 0
    /\ this.change = -SCALE
    /\ clock - this.time = options.duration \div 2
    /\ this.delta = SCALE \div 2
    /\ this.now = SCALE \div 2
    /\ this.timer \in live
    /\ due[this.timer] = clock + Interval

\* C14 (frame of the run's parameters): from, to, change and time are assigned only
\* by the step of a start call that fires start, that is by an accepted start:
\* a stop call, a rejected start, the stop of a preempting start, set, either
\* tick, the completion and every callback's return leave the four unchanged.
C14_OnlyStartAssigns ==
    [][/\ (out'.fired # <<"start">>)
          => /\ this'.from = this.from
             /\ this'.to = this.to
             /\ this'.change = this.change
             /\ this'.time = this.time
       /\ (out'.fired = <<"start">>) => out'.op \in StartCalls \cup {"start.resume"}
       /\ (out'.op \in StopCalls \cup Ticks \cup {"set", "set.event", "step.complete"})
          => out'.fired # <<"start">>]_vars

C14_Witness ==
    /\ out.op = "step.complete"
    /\ this.timer = Null
    /\ this.from = SCALE
    /\ this.to = 0
    /\ this.change = -SCALE
    /\ this.now = 0
    /\ options.duration > 0
    /\ this.time = clock - options.duration

\* C15 as stated (completion ordering): a start issued by the chain action that the
\* completing tick has invoked is accepted, that is, it does not meet the test of
\* lines 168-169.
C15_ChainStartAccepted ==
    (out.op = "step.complete" /\ out.ran # 0) => ~rejects(this)

\* C15 as amended: the completing tick first clears and unsets the timer and sets
\* now to to, then calls the hook, with the instance idle and neither complete
\* fired nor the chain touched; when the hook has returned it fires complete and
\* then invokes the oldest chain action. From the clearing on the instance stays
\* idle unless the hook starts a run, and a start that the chain action issues
\* while the instance is idle is accepted.
C15_CompletionOrder ==
    [][/\ (out'.op = "tick.complete")
          => /\ this'.timer = Null
             /\ this'.timer \notin live'
             /\ this'.now = this.to
             /\ out'.hook
             /\ out'.fired = <<>>
             /\ out'.ran = 0
             /\ stack'[1].k = "step"
             /\ UNCHANGED <<chain, pending>>
       /\ (out'.op = "step.complete")
          => /\ Top.k = "step"
             /\ ~out'.hook
             /\ out'.fired = <<"complete">>
             /\ pending' = Append(pending, clock + CompleteDelay)
             /\ out'.ran = (IF chain = <<>> THEN 0 ELSE Head(chain))
             /\ this' = this
       /\ (stack # <<>> /\ stack[1].k = "step" /\ this.timer = Null
             /\ out'.op \notin StartCalls \cup {"start.resume"})
          => this'.timer = Null
       /\ (stack # <<>> /\ Top.who = "chain" /\ this.timer = Null
             /\ out'.op \in StartCalls)
          => /\ out'.fired = <<"start">>
             /\ this'.timer \in live']_vars

C15_Witness ==
    /\ out.op = "start.idle"
    /\ out.fired = <<"start">>
    /\ stack # <<>>
    /\ stack[1].who = "chain"
    /\ options.wait
    /\ this.timer \in live
    /\ pending # <<>>

\* C16 (domain of the easing): delta, which only the easing assigns, is assigned
\* only in a non-completing tick, and there the duration is positive and the
\* elapsed time is at least 0 and less than the duration, so the progress that the
\* easing is given lies in [0, 1); with a duration of 0 every tick is a completing
\* one and delta is never assigned.
C16_EasingDomain ==
    [][/\ (out'.op = "tick")
          => /\ options.duration > 0
             /\ 0 <= clock - this.time
             /\ clock - this.time < options.duration
             /\ (12 * (clock - this.time)) \div options.duration \in 0..11
             /\ this'.delta = transition(clock - this.time, options.duration)
       /\ (out'.op # "tick") => this'.delta = this.delta
       /\ (options.duration <= 0)
          => /\ out'.op # "tick"
             /\ this'.delta = Undef]_vars

C16_Witness ==
    /\ out.op = "tick.complete"
    /\ options.duration = 0
    /\ clock = this.time + Interval
    /\ this.delta = Undef
    /\ this.now = this.to
    /\ this.timer = Null

\* C17 (set during a run): set, called while the timer is set, leaves the timer
\* set, live and due as before, and every tick assigns now from from, to and the
\* elapsed time alone (the completing tick from to), whatever now was: a value
\* that set stored does not survive the next tick.
C17_SetKeepsRun ==
    [][/\ (out'.op \in {"set", "set.event"} /\ this.timer # Null)
          => /\ this'.timer = this.timer
             /\ this'.timer \in live'
             /\ UNCHANGED <<live, due, phase>>
       /\ (out'.op = "tick")
          => this'.now = compute(this.from, this.to,
                                 transition(clock - this.time, options.duration))
       /\ (out'.op = "tick.complete") => this'.now = this.to
       /\ (out'.op \in Ticks /\ this.now \in SetValues)
          => this'.now \notin SetValues]_vars

C17_Witness ==
    /\ out.op = "set.event"
    /\ stack = <<>>
    /\ phase = "running"
    /\ this.timer \in live
    /\ due[this.timer] <= clock
    /\ this.now \in SetValues
    /\ this.delta = SCALE \div 2

\* C18 (tick count): under TickSpec the timer is due every Interval ms, Interval
\* being 1000 / fps rounded (20 for fps 50, 17 for fps 60), the n-th tick of the
\* run comes at elapsed = n * Interval, it is a non-completing one while that is
\* less than the duration and the completing one as soon as it is not; with
\* duration 500 and fps 50 the run has 25 ticks, the 25th, at elapsed = 500, being
\* the completing one, and none after it.
C18_TickCount ==
    /\ options.fps = DefaultFps => Interval = 20
    /\ options.fps = 60 => Interval = 17
    /\ this.timer # Null => due[this.timer] = this.time + (ticks + 1) * Interval
    /\ out.op \in Ticks => clock = this.time + ticks * Interval
    /\ out.op = "tick" => ticks * Interval < options.duration
    /\ out.op = "tick.complete"
          => /\ (ticks - 1) * Interval < options.duration
             /\ options.duration <= ticks * Interval
    /\ options.fps = DefaultFps
          => /\ ticks <= 25
             /\ out.op = "tick.complete"
                   => (ticks = 25 /\ clock - this.time = DefaultDuration)
             /\ phase = "completed" => (ticks = 25 /\ live = {})

C18_Witness ==
    /\ out.op = "tick.complete"
    /\ options.fps = DefaultFps
    /\ options.duration = DefaultDuration
    /\ ticks = 25
    /\ clock = this.time + 25 * 20
    /\ this.delta = CosEase(11)
    /\ this.now = this.to
    /\ live = {}

\* C19 (failing hook): no step of start calls the hook, so a missing or failing
\* hook fails in the first tick, or set, that calls it. The failure ends the
\* handler where it is and changes nothing else: after a non-completing tick the
\* timer is set and live as before; after the completing tick the timer is unset,
\* now = to, complete is not fired and the chain is as it was; after set, now is
\* the value given and set is not fired.
C19_HookFails ==
    [][/\ (out'.op \in StartCalls \cup {"start.resume"}) => ~out'.hook
       /\ (out'.op = "throw")
          => /\ Top.who = "increase"
             /\ stack' = <<>>
             /\ out'.fired = <<>>
             /\ out'.ran = 0
             /\ UNCHANGED <<this, live, due, chain, pending, phase>>
       /\ (out.op = "tick" /\ out'.op = "throw")
          => /\ stack[1].k = "cb"
             /\ phase = "running" => (this'.timer # Null /\ this'.timer \in live')
       /\ (out.op = "tick.complete" /\ out'.op = "throw")
          => /\ stack[1].k = "step"
             /\ this'.timer = Null
             /\ this'.now = this'.to
       /\ (out.op = "set" /\ out'.op = "throw")
          => /\ stack[1].k = "set"
             /\ this'.now = stack[1].a
       /\ (out.op = "throw") => out'.op \notin {"step.complete", "set.event"}]_vars

C19_Witness ==
    /\ out.op = "throw"
    /\ phase = "completed"
    /\ this.timer = Null
    /\ this.now = this.to
    /\ this.time + options.duration <= clock
    /\ pending = <<>>
    /\ chain = <<1>>
    /\ live = {}

\* C20 (the chain and cancellation): only the completion of a run takes an action
\* off the chain: from a stop call that found the timer set until the next
\* accepted start no chain action is invoked and the queue loses no action, and
\* stop calls, start calls, set and non-completing ticks never change the queue.
C20_DrainOnlyOnCompletion ==
    [][/\ (phase = "stopped")
          => /\ out'.ran = 0
             /\ Len(chain') >= Len(chain)
             /\ SubSeq(chain', 1, Len(chain)) = chain
       /\ (out'.op \in StopCalls \cup StartCalls
                       \cup {"start.resume", "set", "set.event", "tick"})
          => (chain' = chain /\ out'.ran = 0)]_vars

====
